---- MODULE Spec2Model ----
(***************************************************************************)
(* Model of model_diagnostics: the feature binner (bin_feature), the        *)
(* identification function with its array validation, and the bias         *)
(* aggregator (compute_bias).  All are pure functions; a behaviour is one   *)
(* call: Init draws the arguments, one action applies the function and      *)
(* stores what the caller observes (return value, warning, exception).      *)
(* The isotonic solver called by plot_reliability_diagram is modelled      *)
(* step by step: sorting, scan and pooling loop.                           *)
(*                                                                         *)
(* Feature values are modelled as small integers.  A categorical or string *)
(* value is its category code.  NULL and NAN are the missing markers.      *)
(* Bin edges of the uniform method are rationals with denominator          *)
(* n_bins_ef; they are stored as numerators over a common denominator      *)
(* (edge_den) so that every comparison is exact integer arithmetic.        *)
(* Levels and identification values are rationals with denominator         *)
(* LevelDen, stored as numerators.  An array is a record of its shape and  *)
(* its elements in row-major order.                                        *)
(***************************************************************************)
EXTENDS Integers, Sequences, FiniteSets

VARIABLES pc, feature, dtype, n_bins, bin_method, result,
          y_obs, y_pred, functional, level, weights, iso

vars == <<pc, feature, dtype, n_bins, bin_method, result,
          y_obs, y_pred, functional, level, weights, iso>>

\* ------------------------------------------------------------- bounds
MaxLen == 4
MaxVal == 3
MaxBins == 3
MaxY == 2
MaxObs == 3
MaxN == 3

\* --------------------------------------------------- values and dtypes
NULL == -1
NAN == -2

DataVals == 1..MaxVal

CategoricalDtypes == {"categorical", "string"}
NumericDtypes == {"float", "int"}

\* The values a column of the given dtype can hold.
DtypeVals(dt) ==
  IF dt = "float" THEN DataVals \cup {NULL, NAN} ELSE DataVals \cup {NULL}

SeqsUpTo(S, n) == UNION {[1..k -> S] : k \in 0..n}

BinMethods == {"quantile", "uniform", "kmeans"}

\* Inputs too long to be reached by enumeration: those of the documented
\* examples and five distinct values with three bins.
ExampleInputs ==
  { [feature |-> <<1, 2, 3, 4, 5, 6, 7, 8, 9, 10>>, dtype |-> "int", n_bins |-> 5],
    [feature |-> <<1, 2, 3, 4, 5, 6, 7, 8, 9, 10>>, dtype |-> "float", n_bins |-> 5],
    [feature |-> <<1, 2, 3, NULL, 4, 5, 6, 7, 8, 9>>, dtype |-> "int", n_bins |-> 4],
    [feature |-> <<1, 2, 3, NAN, 4, 5, 6, 7, 8, 9>>, dtype |-> "float", n_bins |-> 4],
    [feature |-> <<1, 2, 3, 4, 5>>, dtype |-> "int", n_bins |-> 3],
    [feature |-> <<1, 2, 1, 3, 2, 1, 4, 3>>, dtype |-> "string", n_bins |-> 2],
    [feature |-> <<1, 2, 1, 3, 2, 1, 4, 3>>, dtype |-> "categorical", n_bins |-> 2] }

\* ------------------------------------------------------ sequence helpers
Range(s) == {s[i] : i \in DOMAIN s}

Count(s, v) == Cardinality({i \in DOMAIN s : s[i] = v})

Min(S) == CHOOSE m \in S : \A x \in S : m <= x
Max(S) == CHOOSE m \in S : \A x \in S : m >= x

RECURSIVE SortedSeq(_)
\* The elements of a finite set of integers in ascending order.
SortedSeq(S) ==
  IF S = {} THEN <<>> ELSE <<Min(S)>> \o SortedSeq(S \ {Min(S)})

\* The k-th smallest (1-based) element of a non-empty sequence of integers.
OrderStat(s, k) ==
  CHOOSE v \in Range(s) :
    /\ Cardinality({i \in DOMAIN s : s[i] < v}) < k
    /\ Cardinality({i \in DOMAIN s : s[i] <= v}) >= k

\* ----------------------------------------------------- polars.Series
\* Mutant: NaN is left in the column.
fill_nan_skipped(s) == s

\* fill_nan(None) on a float column: NaN becomes null.
fill_nan(s) == [i \in DOMAIN s |-> IF s[i] = NAN THEN NULL ELSE s[i]]

null_count(s) == Count(s, NULL)

drop_nulls(s) == SelectSeq(s, LAMBDA v : v # NULL)

\* value_counts(sort=True): the count column, in descending order.
RECURSIVE CountsDesc(_, _)
CountsDesc(s, cats) ==
  IF cats = {} THEN <<>>
  ELSE LET c == CHOOSE x \in cats : \A y \in cats : Count(s, x) >= Count(s, y)
       IN <<Count(s, c)>> \o CountsDesc(s, cats \ {c})

value_counts(s) == CountsDesc(s, Range(s))

\* value_count.filter(pl.col(count_name) >= n).shape[0]
filter_ge_shape(vc, n) == Cardinality({i \in DOMAIN vc : vc[i] >= n})

\* value_count.filter(pl.col(count_name) > n).shape[0]
filter_gt_shape(vc, n) == Cardinality({i \in DOMAIN vc : vc[i] > n})

\* ------------------------------------------------------------ numpy
\* Mutant: method="lower" in place of "inverted_cdf".
nanquantile_lower(xs, i, k) == OrderStat(xs, ((Len(xs) - 1) * i) \div k + 1)

\* np.nanquantile(x, i/k, method="inverted_cdf") over the non-missing values
\* xs (non-empty): the ceil(n*i/k)-th smallest value.
nanquantile_inverted_cdf(xs, i, k) ==
  OrderStat(xs, (Len(xs) * i + k - 1) \div k)

\* np.digitize(x, bins, right=True) for ascending bins, x and bins scaled by
\* den: the number of edges strictly below x.  A NaN sorts after every edge.
digitize(x, bins, den) ==
  IF x = NULL THEN Len(bins)
  ELSE Cardinality({j \in DOMAIN bins : bins[j] < x * den})

\* Mutant: the second axis has stride 0, both entries of a pair are the
\* lower edge.
as_strided_zero_stride(e) == [j \in 1..(Len(e) - 1) |-> <<e[j], e[j]>>]

\* as_strided(bin_edges, (n - 1, 2)): the table of [low, high] pairs.
as_strided(e) == [j \in 1..(Len(e) - 1) |-> <<e[j], e[j + 1]>>]

\* --------------------------------------------------------- bin_feature
NoEdges == << >>

\* Before the call: nothing has been observed.
NoResult ==
  [status |-> "none", error |-> "", warned |-> FALSE,
   is_categorical |-> FALSE, is_string |-> FALSE, n_bins |-> 0,
   edge_den |-> 1, edge_table |-> << >>, f_binned |-> << >>, df |-> << >>]

Raised(err) ==
  [status |-> "raised", error |-> err, warned |-> FALSE,
   is_categorical |-> FALSE, is_string |-> FALSE, n_bins |-> 0,
   edge_den |-> 1, edge_table |-> << >>, f_binned |-> << >>, df |-> << >>]

Returned(w, cat, str, nb, den, tab, fb) ==
  [status |-> "returned", error |-> "", warned |-> w,
   is_categorical |-> cat, is_string |-> str, n_bins |-> nb,
   edge_den |-> den, edge_table |-> tab, f_binned |-> fb, df |-> << >>]

\* Mutant: no slot is reserved for the null values.
categorical_n_bins_ef_unreserved(has_null, nb) == nb

\* Lines 118-123: one slot is reserved for the null values, if any.
categorical_n_bins_ef(has_null, nb) == IF has_null THEN nb - 1 ELSE nb

\* Mutant: the categories tied with the first one cut are kept.
n_bins_kept_with_ties(value_count, n_bins_ef) ==
  IF n_bins_ef >= Len(value_count) THEN Len(value_count)
  ELSE filter_ge_shape(value_count, value_count[n_bins_ef + 1])

\* Lines 125-138: the number of categories kept, ties at the cut dropped.
\* n is value_count["count"][n_bins_ef], an index counted from 0.
n_bins_kept(value_count, n_bins_ef) ==
  IF n_bins_ef >= Len(value_count) THEN Len(value_count)
  ELSE LET n == value_count[n_bins_ef + 1]
           n_bins_tmp == filter_ge_shape(value_count, n)
       IN IF n_bins_tmp > n_bins_ef
          THEN filter_gt_shape(value_count, n)
          ELSE n_bins_tmp

\* Lines 106-148: the categorical and string branch.
bin_categorical(f, dt, nb) ==
  LET has_null == null_count(f) >= 1
      value_count == IF has_null THEN value_counts(drop_nulls(f))
                     ELSE value_counts(f)
      n_bins_ef == categorical_n_bins_ef(has_null, nb)
      kept == n_bins_kept(value_count, n_bins_ef)
      n_bins_out == IF has_null THEN kept + 1 ELSE kept
  IN IF n_bins_out = 0
     THEN IF n_bins_ef >= Len(value_count)
          \* n_bins_tmp was never assigned: formatting the message fails.
          THEN Raised("UnboundLocalError")
          ELSE Returned(TRUE, dt = "categorical", dt = "string", n_bins_out,
                        1, << >>, << >>)
     ELSE Returned(FALSE, dt = "categorical", dt = "string", n_bins_out,
                   1, << >>, << >>)

\* Lines 156-172: the interior edges, as numerators over den.
quantile_edges(xs, n_bins_ef) ==
  SortedSeq({nanquantile_inverted_cdf(xs, i, n_bins_ef) : i \in 1..(n_bins_ef - 1)})

\* Mutant: np.arange(0, n_bins_ef) in place of np.arange(1, n_bins_ef).
uniform_edges_from_zero(feature_min, feature_max, n_bins_ef) ==
  LET f_range == feature_max - feature_min
  IN [i \in 1..n_bins_ef |-> feature_min * n_bins_ef + f_range * (i - 1)]

uniform_edges(feature_min, feature_max, n_bins_ef) ==
  LET f_range == feature_max - feature_min
  IN [i \in 1..(n_bins_ef - 1) |-> feature_min * n_bins_ef + f_range * i]

\* Mutant: no bin is reserved for the null values.
numeric_n_bins_ef_unreserved(has_null, nb) == Max({1, nb})

\* Line 153: max(1, n_bins - (feature.null_count() >= 1)).
numeric_n_bins_ef(has_null, nb) ==
  IF has_null THEN Max({1, nb - 1}) ELSE Max({1, nb})

\* Lines 150-222: the numeric branch for a column with a non-missing value.
bin_numeric(f, nb, method) ==
  LET xs == drop_nulls(f)
      n_bins_ef == numeric_n_bins_ef(null_count(f) >= 1, nb)
      feature_min == Min(Range(xs))
      feature_max == Max(Range(xs))
      den == IF method = "quantile" THEN 1 ELSE n_bins_ef
      bin_edges == IF method = "quantile" THEN quantile_edges(xs, n_bins_ef)
                   ELSE uniform_edges(feature_min, feature_max, n_bins_ef)
      binned == [r \in DOMAIN f |-> digitize(f[r], bin_edges, den)]
      full == <<feature_min * den>> \o bin_edges \o <<feature_max * den>>
      table == as_strided(full)
      rows == [r \in DOMAIN f |->
                 IF f[r] = NULL THEN [bin |-> NULL, bin_edges |-> NoEdges]
                 ELSE [bin |-> binned[r], bin_edges |-> table[binned[r] + 1]]]
  IN Returned(FALSE, FALSE, FALSE, nb, den, table, rows)

\* Every row missing: each bin and each bin_edges entry is masked to null.
bin_all_missing(f, nb) ==
  Returned(FALSE, FALSE, FALSE, nb, 1, << >>,
           [r \in DOMAIN f |-> [bin |-> NULL, bin_edges |-> NoEdges]])

\* Mutant: bin_method is validated where it is first used, in the numeric
\* branch.
bin_feature_late_check(f, dt, nb, method) ==
  IF dt = "none" THEN {Returned(FALSE, FALSE, FALSE, nb, 1, << >>, << >>)}
  ELSE IF dt \in CategoricalDtypes THEN {bin_categorical(f, dt, nb)}
  ELSE IF method \notin {"quantile", "uniform"} THEN {Raised("ValueError")}
  ELSE LET col == IF dt = "float" THEN fill_nan(f) ELSE f
       IN IF drop_nulls(col) # << >> THEN {bin_numeric(col, nb, method)}
          ELSE IF method = "uniform" THEN {Raised("TypeError")}
          ELSE {Raised("TypeError"), bin_all_missing(col, nb)}

\* The outcomes of bin_feature(feature, feature_name, y_obs, n_bins, bin_method).
bin_feature(f, dt, nb, method) ==
  IF method \notin {"quantile", "uniform"} THEN {Raised("ValueError")}
  ELSE IF dt = "none" THEN {Returned(FALSE, FALSE, FALSE, nb, 1, << >>, << >>)}
  ELSE IF dt \in CategoricalDtypes THEN {bin_categorical(f, dt, nb)}
  ELSE LET col == IF dt = "float" THEN fill_nan(f) ELSE f
       IN IF drop_nulls(col) # << >> THEN {bin_numeric(col, nb, method)}
          \* feature.min() and feature.max() are None.
          ELSE IF method = "uniform" THEN {Raised("TypeError")}
          \* The edge table is built from None, None: whether the conversion
          \* to a Float64 array column succeeds is left to the library.
          ELSE {Raised("TypeError"), bin_all_missing(col, nb)}

\* ------------------------------------------------------------ arrays
LevelDen == 10

Abs(x) == IF x < 0 THEN 0 - x ELSE x

RECURSIVE Product(_)
\* The number of elements of an array of the given shape.
Product(shape) ==
  IF shape = << >> THEN 1 ELSE shape[1] * Product(Tail(shape))

Array(shape, data) == [shape |-> shape, data |-> data]

\* The arrays of one shape with elements in vals.
ArraysOf(shape, vals) ==
  {Array(shape, d) : d \in [1..Product(shape) -> vals]}

\* A 1-d array of n zeros.
Zeros(n) == Array(<<n>>, [i \in 1..n |-> 0])

\* ------------------------------------------------- validate_2_arrays
ErrDimension == "ValueError: Arrays must have the same dimension"
ErrShape == "ValueError: Arrays must have the same shape"
ErrLevel == "ValueError: Argument level must fulfil 0 <= level <= 1"
ErrFunctional == "ValueError: Argument functional must be one of"

Validated(a, b) == [status |-> "returned", error |-> "", a |-> a, b |-> b]

\* Mutant: an axis of a shorter than that of b is let through.
validate_2_arrays_one_sided(a, b) ==
  IF Len(a.shape) # Len(b.shape) THEN Raised(ErrDimension)
  ELSE IF \E i \in DOMAIN a.shape : a.shape[i] > b.shape[i] THEN Raised(ErrShape)
  ELSE Validated(a, b)

\* np.asarray keeps shape and values; ndim is the length of the shape.
validate_2_arrays(a, b) ==
  IF Len(a.shape) # Len(b.shape) THEN Raised(ErrDimension)
  ELSE IF \E i \in DOMAIN a.shape : a.shape[i] # b.shape[i] THEN Raised(ErrShape)
  ELSE Validated(a, b)

\* ------------------------------------------- identification_function
\* Mutant: np.greater in place of np.greater_equal.
greater(p, y) == IF p > y THEN 1 ELSE 0

\* np.greater_equal(y_p, y_o), a bool used as 0 or 1.
greater_equal(p, y) == IF p >= y THEN 1 ELSE 0

\* Line 83: y_p - y_o.
mean_value(p, y) == (p - y) * LevelDen

\* Line 85: np.greater_equal(y_p, y_o) - 0.5.
median_value(p, y) == greater_equal(p, y) * LevelDen - LevelDen \div 2

\* Mutant: the absolute value is dropped.
expectile_value_no_abs(p, y, lvl) ==
  2 * (greater_equal(p, y) * LevelDen - lvl) * (p - y)

\* Mutant: the factor 2 is dropped.
expectile_value_no_factor(p, y, lvl) ==
  Abs(greater_equal(p, y) * LevelDen - lvl) * (p - y)

\* Line 87: 2 * np.abs(np.greater_equal(y_p, y_o) - level) * (y_p - y_o).
expectile_value(p, y, lvl) ==
  2 * Abs(greater_equal(p, y) * LevelDen - lvl) * (p - y)

\* Line 89: np.greater_equal(y_p, y_o) - level.
quantile_value(p, y, lvl) == greater_equal(p, y) * LevelDen - lvl

IdentReturned(v) == [status |-> "returned", error |-> "", V |-> v]

\* Mutant: the level is validated for every functional.
level_is_checked_always(fnl) == TRUE

\* Line 79: the functionals whose level is validated.
level_is_checked(fnl) == fnl \in {"expectile", "quantile"}

\* Mutant: an unknown functional falls through to the mean.
unknown_functional_as_mean(y_o, y_p) ==
  IdentReturned(Array(y_o.shape,
     [i \in DOMAIN y_o.data |-> mean_value(y_p.data[i], y_o.data[i])]))

\* Lines 90-95: the else branch.
unknown_functional(y_o, y_p) == Raised(ErrFunctional)

\* identification_function(y_obs, y_pred, functional=fnl, level=lvl).
identification_function(yo, yp, fnl, lvl) ==
  LET v == validate_2_arrays(yo, yp)
      y_o == v.a
      y_p == v.b
      each(i) ==
        IF fnl = "mean" THEN mean_value(y_p.data[i], y_o.data[i])
        ELSE IF fnl = "median" THEN median_value(y_p.data[i], y_o.data[i])
        ELSE IF fnl = "expectile"
             THEN expectile_value(y_p.data[i], y_o.data[i], lvl)
        ELSE quantile_value(y_p.data[i], y_o.data[i], lvl)
  IN IF v.status = "raised" THEN v
     ELSE IF level_is_checked(fnl) /\ (lvl < 0 \/ lvl > LevelDen)
          THEN Raised(ErrLevel)
     ELSE IF fnl \in {"mean", "median", "expectile", "quantile"}
          THEN IdentReturned(Array(y_o.shape, [i \in DOMAIN y_o.data |-> each(i)]))
     ELSE unknown_functional(y_o, y_p)

\* -------------------------------------------------------- compute_bias
RECURSIVE FirstAppearance(_)
\* The distinct elements of a sequence, in order of first appearance: the
\* group keys of a hash aggregation.
FirstAppearance(s) ==
  IF s = << >> THEN << >>
  ELSE LET init == FirstAppearance(SubSeq(s, 1, Len(s) - 1))
       IN IF s[Len(s)] \in Range(init) THEN init ELSE Append(init, s[Len(s)])

RECURSIVE SumOver(_, _)
\* The sum of s[i] over the rows i in I.
SumOver(s, I) ==
  IF I = {} THEN 0
  ELSE LET i == CHOOSE j \in I : TRUE IN s[i] + SumOver(s, I \ {i})

\* Mutant: rows with a null key are dropped from the aggregation.
group_by_dropna(keys) ==
  LET ks == SelectSeq(FirstAppearance(keys), LAMBDA k : k # NULL)
  IN [g \in DOMAIN ks |-> [key |-> ks[g], bias_count |-> Count(keys, ks[g])]]

\* df.group_by([key]).aggregate([("bias", "count"), ...]): one row per key;
\* a null key is a group of its own.  bias holds no null, so the count is
\* the number of rows of the group.
group_by(keys) ==
  LET ks == FirstAppearance(keys)
  IN [g \in DOMAIN ks |-> [key |-> ks[g], bias_count |-> Count(keys, ks[g])]]

\* The sum of the squares of s[i] over the rows i in I.
SumSqOver(s, I) == SumOver([i \in DOMAIN s |-> s[i] * s[i]], I)

\* Mutant: the population standard deviation, defined for a single row.
stddev_ddof_0(bias, I) ==
  LET n == Cardinality(I)
  IN [is_null |-> FALSE,
      variance |-> <<n * SumSqOver(bias, I) - SumOver(bias, I) * SumOver(bias, I),
                     n * n>>]

\* ("bias", "stddev", VarianceOptions(ddof=1)) over the rows I of a group:
\* null unless count > ddof, else the square root of
\* variance = (n*sum(v^2) - sum(v)^2) / (n*(n-1)), kept as <<num, den>>.
stddev_ddof_1(bias, I) ==
  LET n == Cardinality(I)
  IN IF n <= 1 THEN [is_null |-> TRUE, variance |-> <<0, 1>>]
     ELSE [is_null |-> FALSE,
           variance |-> <<n * SumSqOver(bias, I) - SumOver(bias, I) * SumOver(bias, I),
                          n * (n - 1)>>]

PNaN == [kind |-> "nan", dof |-> 0, t2 |-> <<0, 1>>]
PZero == [kind |-> "zero", dof |-> 0, t2 |-> <<0, 1>>]

\* Lines 219-231 for one row, x = total/n the mean: a null stddev becomes
\* NaN in to_numpy and makes the p-value NaN; a zero stddev gives
\* x/0 = +-inf, t = -inf and 2*stdtr(n-1, -inf) = 0, or 0/0 = NaN if x = 0;
\* otherwise 2*stdtr(dof, -sqrt(t2)) with t2 = x^2*n/variance.
p_value(total, n, s) ==
  IF s.is_null THEN PNaN
  ELSE IF s.variance[1] = 0 THEN (IF total = 0 THEN PNaN ELSE PZero)
  ELSE [kind |-> "t", dof |-> n - 1,
        t2 |-> <<total * total * s.variance[2], n * s.variance[1]>>]

\* The columns bias_mean (as <<sum, count>>), bias_count, bias_stddev and
\* p_value of the group with rows I.
aggregate(bias, I) ==
  LET n == Cardinality(I)
      total == SumOver(bias, I)
      s == stddev_ddof_1(bias, I)
  IN [bias_mean |-> <<total, n>>, bias_stddev |-> s, p_value |-> p_value(total, n, s)]

Table(rows) ==
  [status |-> "returned", error |-> "", warned |-> FALSE,
   is_categorical |-> FALSE, is_string |-> FALSE, n_bins |-> 0,
   edge_den |-> 1, edge_table |-> << >>, f_binned |-> << >>, df |-> rows]

RECURSIVE sort_by_count(_)
\* df.sort_by("bias_count"): ascending and stable.
sort_by_count(rows) ==
  IF rows = << >> THEN << >>
  ELSE LET least == Min({rows[g].bias_count : g \in DOMAIN rows})
           g0 == Min({g \in DOMAIN rows : rows[g].bias_count = least})
           rest == [g \in 1..(Len(rows) - 1) |->
                      IF g < g0 THEN rows[g] ELSE rows[g + 1]]
       IN <<rows[g0]>> \o sort_by_count(rest)

\* Lines 190-193.  Line 193 sorts and truncates the table but its value
\* (taken) is not assigned: df stays the grouped table.
bias_categorical(bias, f, nb) ==
  LET grouped == group_by(f)
      n_bins_min == IF nb <= Len(grouped) THEN nb ELSE Len(grouped)
      taken == SubSeq(sort_by_count(grouped), 1, n_bins_min)
      members(g) == {r \in DOMAIN f : f[r] = grouped[g].key}
  IN [g \in DOMAIN grouped |->
        LET a == aggregate(bias, members(g))
        IN [feature |-> grouped[g].key, bias_mean |-> a.bias_mean,
            bias_count |-> grouped[g].bias_count,
            bias_stddev |-> a.bias_stddev, p_value |-> a.p_value]]

\* np.quantile(x, i/n_bins, method="lower"): element floor((n-1)*i/n_bins),
\* counted from 0, of the sorted values.
quantile_lower(xs, i, nb) == OrderStat(xs, ((Len(xs) - 1) * i) \div nb + 1)

\* Lines 196-201 for a column without missing values.
lower_edges(xs, nb) ==
  SortedSeq({quantile_lower(xs, i, nb) : i \in 1..(nb - 1)})

\* Lines 195-216.  The feature column of a row is the mean of the feature
\* in the bin, kept as <<sum, count>>; a NaN in the column makes every
\* quantile, hence the only edge, NaN and puts all rows into bin 0.
bias_numeric(bias, f, nb) ==
  LET has_nan == \E r \in DOMAIN f : f[r] \in {NULL, NAN}
      q == IF has_nan THEN << >> ELSE lower_edges(f, nb)
      f_binned == [r \in DOMAIN f |-> IF has_nan THEN 0 ELSE digitize(f[r], q, 1)]
      grouped == group_by(f_binned)
      members(g) == {r \in DOMAIN f : f_binned[r] = grouped[g].key}
  IN [g \in DOMAIN grouped |->
        LET a == aggregate(bias, members(g))
        IN [feature |-> <<IF has_nan THEN NAN ELSE SumOver(f, members(g)),
                          grouped[g].bias_count>>,
            bias_mean |-> a.bias_mean,
            bias_count |-> grouped[g].bias_count,
            bias_stddev |-> a.bias_stddev, p_value |-> a.p_value]]

\* The outcomes of compute_bias(y_obs, y_pred, feature, functional=fnl,
\* level=lvl, n_bins=nb) for one-dimensional y_obs, y_pred as long as the
\* feature.
compute_bias(yo, yp, f, dt, fnl, lvl, nb) ==
  LET ident == identification_function(yo, yp, fnl, lvl)
      bias == ident.V.data
  IN IF ident.status = "raised" THEN {ident}
     ELSE IF dt \in CategoricalDtypes THEN {Table(bias_categorical(bias, f, nb))}
     \* np.quantile of an empty column, or of a column whose nulls are not
     \* converted to NaN, fails in the library.
     ELSE IF f = << >> THEN {Raised("IndexError"), Table(<< >>)}
     ELSE IF NULL \in Range(f)
          THEN {Raised("TypeError"), Table(bias_numeric(bias, f, nb))}
     ELSE {Table(bias_numeric(bias, f, nb))}

\* The solver state of a call that does not fit.
NoIso == [obs |-> << >>, todo |-> << >>, stack |-> << >>, n_pooled |-> 0]

\* ------------------------------------------------------- state machine
Inputs ==
  ( [feature : {<< >>}, dtype : {"none"}, n_bins : 1..MaxBins]
    \cup UNION { [feature : SeqsUpTo(DtypeVals(dt), MaxLen), dtype : {dt},
                  n_bins : 1..MaxBins] : dt \in CategoricalDtypes \cup NumericDtypes }
    \cup ExampleInputs )

Init ==
  /\ pc = "ready"
  /\ \E inp \in Inputs :
       /\ feature = inp.feature
       /\ dtype = inp.dtype
       /\ n_bins = inp.n_bins
  /\ bin_method \in BinMethods
  /\ result = NoResult
  /\ weights = << >>
  /\ iso = NoIso
  /\ y_obs = Zeros(Len(feature))
  /\ y_pred = Zeros(Len(feature))
  /\ functional = "mean"
  /\ level = LevelDen \div 2

\* Mutant: the NaN of a float column are replaced in the caller's column.
CallBinFeatureInPlace ==
  /\ pc = "ready"
  /\ pc' = "bin_feature"
  /\ result' \in bin_feature(feature, dtype, n_bins, bin_method)
  /\ feature' = IF dtype = "float" THEN fill_nan(feature) ELSE feature
  /\ UNCHANGED <<dtype, n_bins, bin_method>>
  /\ UNCHANGED <<y_obs, y_pred, functional, level, weights, iso>>

\* dtype "none" stands for feature=None.  The function rebinds its local
\* names (pl.Series(...), feature.fill_nan(None)) and never writes into
\* the caller's column.
CallBinFeature ==
  /\ pc = "ready"
  /\ pc' = "bin_feature"
  /\ result' \in bin_feature(feature, dtype, n_bins, bin_method)
  /\ UNCHANGED <<feature, dtype, n_bins, bin_method>>
  /\ UNCHANGED <<y_obs, y_pred, functional, level, weights, iso>>

\* compute_bias has no bin_method argument and needs a feature: it is called
\* once per feature and n_bins.
CallComputeBias ==
  /\ pc = "ready"
  /\ dtype # "none"
  /\ bin_method = "quantile"
  /\ pc' = "compute_bias"
  /\ result' \in compute_bias(y_obs, y_pred, feature, dtype, functional, level,
                              n_bins)
  /\ UNCHANGED <<feature, dtype, n_bins, bin_method>>
  /\ UNCHANGED <<y_obs, y_pred, functional, level, weights, iso>>

Next == CallBinFeature \/ CallComputeBias

Spec == Init /\ [][Next]_vars

\* ------------------------------------- compute_bias with observations
Constant(n, c) == Array(<<n>>, [i \in 1..n |-> c])

BiasFeatureVals == {NULL, 1, 2}

InitBias ==
  /\ pc = "ready"
  /\ \E n \in 1..MaxObs :
       /\ feature \in [1..n -> BiasFeatureVals]
       /\ y_obs \in {Constant(n, c) : c \in 0..1}
       /\ y_pred \in ArraysOf(<<n>>, 0..MaxY)
  /\ dtype \in {"string", "int"}
  /\ n_bins \in 1..2
  /\ bin_method = "quantile"
  /\ functional \in {"mean", "median"}
  /\ level = LevelDen \div 2
  /\ result = NoResult
  /\ weights = << >>
  /\ iso = NoIso

NextBias == CallComputeBias

SpecBias == InitBias /\ [][NextBias]_vars

\* ----------------------------------------------- partial dependence
\* The prediction function the partial dependence is computed for.
predict(a, b) == a + 2 * b + 3 * a * b

\* compute_partial_dependence(pred_fun, X, feature_index=0, grid) for X with
\* columns a and b: per grid value the mean, kept as <<sum, count>>, of
\* the predictions over the rows with column a set to the grid value.
compute_partial_dependence(a, b, grid) ==
  [k \in DOMAIN grid |->
     <<SumOver([r \in DOMAIN b |-> predict(grid[k], b[r])], DOMAIN b), Len(b)>>]

\* X has the feature as column a and y_pred as column b; the grid is
\* X.get_column("a").unique().sort().
CallComputePartialDependence ==
  /\ pc = "ready"
  /\ dtype = "int"
  /\ feature # << >>
  /\ NULL \notin Range(feature)
  /\ y_pred.shape = <<Len(feature)>>
  /\ pc' = "compute_partial_dependence"
  /\ result' = Table(compute_partial_dependence(feature, y_pred.data,
                                                SortedSeq(Range(feature))))
  /\ UNCHANGED <<feature, dtype, n_bins, bin_method>>
  /\ UNCHANGED <<y_obs, y_pred, functional, level, weights, iso>>

\* ----------------------------- identification_function on its own
Shapes == {<< >>, <<1>>, <<2>>, <<1, 1>>, <<1, 2>>, <<2, 1>>}

Functionals == {"mean", "median", "expectile", "quantile", "mode"}

\* Levels -0.5, 0, 0.3, 0.5, 1 and 1.5.
Levels == {0 - 5, 0, 3, 5, 10, 15}

YArrays == UNION {ArraysOf(sh, 1..MaxY) : sh \in Shapes}

InitIdent ==
  /\ pc = "ready"
  /\ y_obs \in YArrays
  /\ y_pred \in YArrays
  /\ functional \in Functionals
  /\ level \in Levels
  /\ feature = << >>
  /\ dtype = "none"
  /\ n_bins = 1
  /\ bin_method = "quantile"
  /\ result = NoResult
  /\ weights = << >>
  /\ iso = NoIso

CallValidate2Arrays ==
  /\ pc = "ready"
  /\ pc' = "validate_2_arrays"
  /\ result' = validate_2_arrays(y_obs, y_pred)
  /\ UNCHANGED <<feature, dtype, n_bins, bin_method>>
  /\ UNCHANGED <<y_obs, y_pred, functional, level, weights, iso>>

CallIdentificationFunction ==
  /\ pc = "ready"
  /\ pc' = "identification_function"
  /\ result' = identification_function(y_obs, y_pred, functional, level)
  /\ UNCHANGED <<feature, dtype, n_bins, bin_method>>
  /\ UNCHANGED <<y_obs, y_pred, functional, level, weights, iso>>

NextIdent == CallValidate2Arrays \/ CallIdentificationFunction

SpecIdent == InitIdent /\ [][NextIdent]_vars

\* ------------------------------------------------------------- claims
ValidMethod == bin_method \in {"quantile", "uniform"}

Missing(v) == v \in {NULL, NAN}

AnyMissing == \E r \in DOMAIN feature : Missing(feature[r])

BinnedCategorical ==
  pc = "bin_feature" /\ dtype \in CategoricalDtypes /\ ValidMethod

BinnedNumeric ==
  pc = "bin_feature" /\ dtype \in NumericDtypes /\ ValidMethod
  /\ result.status = "returned"

\* The distinct non-missing categories and the limit L on their number.
Categories == Range(feature) \ {NULL}

Limit == IF AnyMissing THEN n_bins - 1 ELSE n_bins

\* The sets of most frequent categories that are closed under ties: with a
\* category they hold every category that is at least as frequent.
TopSets ==
  {S \in SUBSET Categories :
     \A c \in S : \A d \in Categories :
       Count(feature, d) >= Count(feature, c) => d \in S}

LargestTopSet(L) ==
  Max({Cardinality(S) : S \in {T \in TopSets : Cardinality(T) <= L}})

\* The number of non-missing categories the returned n_bins stands for.
Retained == result.n_bins - (IF AnyMissing THEN 1 ELSE 0)

\* C1: a categorical or string feature with more distinct non-missing
\* categories than the limit L keeps as many categories as the largest
\* tie-closed set of most frequent categories with at most L members;
\* the counts {a:3, b:2, c:2, d:1} with n_bins = 2 keep exactly 1.
C1_TieAwareTruncation ==
  (BinnedCategorical /\ Cardinality(Categories) > Limit)
    => /\ result.status = "returned"
       /\ Retained = LargestTopSet(Limit)
       /\ (feature = <<1, 2, 1, 3, 2, 1, 4, 3>> /\ n_bins = 2) => Retained = 1

C1_Witness ==
  /\ BinnedCategorical
  /\ feature = <<1, 2, 1, 3, 2, 1, 4, 3>>
  /\ n_bins = 2
  /\ Cardinality(Categories) > Limit
  /\ Retained = 1

\* The groups of a binned numeric feature: the distinct bin ids of the
\* non-missing rows, and one group for the missing rows if there are any.
DataBins ==
  {result.f_binned[r].bin : r \in {i \in DOMAIN feature : ~Missing(feature[i])}}

NumericGroups == Cardinality(DataBins) + (IF AnyMissing THEN 1 ELSE 0)

\* C2 as stated: a numeric feature is reduced to at most n_bins groups,
\* the group of the missing rows included.
C2_AtMostNBinsGroups == BinnedNumeric => NumericGroups <= n_bins

\* C2, amended: a numeric feature is reduced to at most n_bins groups, the
\* group of the missing rows included, except that with n_bins = 1 and a
\* missing value the non-missing rows still get one bin: 2 groups at most.
C2_AtMostNBinsGroupsOrTwo ==
  BinnedNumeric =>
    NumericGroups <= (IF n_bins = 1 /\ AnyMissing THEN 2 ELSE n_bins)

C2_Witness ==
  /\ BinnedNumeric
  /\ AnyMissing
  /\ n_bins = 3
  /\ NumericGroups = 3

\* C3: for a categorical or string feature the returned effective number
\* of bins (kept categories plus the slot of the missing values) never
\* exceeds the requested n_bins.
C3_EffectiveBinsWithinRequest ==
  (BinnedCategorical /\ result.status = "returned") => result.n_bins <= n_bins

C3_Witness ==
  /\ BinnedCategorical
  /\ result.status = "returned"
  /\ AnyMissing
  /\ Cardinality(Categories) > Limit
  /\ result.n_bins = n_bins
  /\ n_bins >= 2

\* C4 as stated: whenever no non-missing category is kept, bin_feature
\* warns and returns normally with 0 groups for the non-missing data.
C4_WarnsWhenNothingRetained ==
  (BinnedCategorical /\ LargestTopSet(Limit) = 0)
    => /\ result.status = "returned"
       /\ result.warned
       /\ Retained = 0

\* C5 as stated: compute_bias returns at most n_bins groups.
C5_BiasAtMostNBinsGroups ==
  (pc = "compute_bias" /\ result.status = "returned")
    => Len(result.df) <= n_bins

\* C6: the per-group counts of the table compute_bias returns sum to the
\* number of observations passed in.
C6_CountsSumToTotal ==
  (pc = "compute_bias" /\ result.status = "returned")
    => SumOver([g \in DOMAIN result.df |-> result.df[g].bias_count],
               DOMAIN result.df) = Len(feature)

C6_Witness ==
  /\ pc = "compute_bias"
  /\ result.status = "returned"
  /\ Len(feature) = 4
  /\ AnyMissing
  /\ Len(result.df) >= 3

\* The non-missing values of the feature, and the scaled edges the result
\* reports between the feature minimum and maximum.
NonMissingVals == {feature[r] : r \in {i \in DOMAIN feature : ~Missing(feature[i])}}

InteriorEdges ==
  [j \in 1..(Len(result.edge_table) - 1) |-> result.edge_table[j][2]]

\* C7: a numeric row gets a null bin id and null bin_edges exactly if its
\* value is missing (null, or NaN of a float feature); every other row
\* gets an integer bin id; minimum, maximum and edges are those of the
\* non-missing values; one null among ten values with n_bins = 4 gives 3
\* data bins plus the null group.
C7_NullBinIffMissing ==
  BinnedNumeric =>
    /\ Len(result.f_binned) = Len(feature)
    /\ \A r \in DOMAIN feature :
         /\ result.f_binned[r].bin = NULL <=> Missing(feature[r])
         /\ result.f_binned[r].bin_edges = NoEdges <=> Missing(feature[r])
         /\ ~Missing(feature[r]) => result.f_binned[r].bin \in Nat
    /\ NonMissingVals # {} =>
         /\ result.edge_table[1][1] = Min(NonMissingVals) * result.edge_den
         /\ result.edge_table[Len(result.edge_table)][2]
              = Max(NonMissingVals) * result.edge_den
         /\ \A j \in DOMAIN InteriorEdges :
              /\ InteriorEdges[j] >= Min(NonMissingVals) * result.edge_den
              /\ InteriorEdges[j] <= Max(NonMissingVals) * result.edge_den
    /\ (Len(feature) = 10 /\ n_bins = 4 /\ AnyMissing) =>
         (Cardinality(DataBins) = 3 /\ NumericGroups = 4)

C7_Witness ==
  /\ BinnedNumeric
  /\ feature = <<1, 2, 3, NAN, 4, 5, 6, 7, 8, 9>>
  /\ n_bins = 4
  /\ result.f_binned[4].bin = NULL
  /\ Cardinality(DataBins) = 3

\* The number k of bins left to the non-missing values.
K == IF AnyMissing /\ n_bins > 1 THEN n_bins - 1 ELSE n_bins

\* The inverted empirical CDF at level i/k: the smallest value v whose
\* share of values <= v is at least i/k.
InvertedCdf(i, k) ==
  LET n == Cardinality({r \in DOMAIN feature : ~Missing(feature[r])})
      le(v) == Cardinality({r \in DOMAIN feature :
                              ~Missing(feature[r]) /\ feature[r] <= v})
  IN Min({v \in NonMissingVals : le(v) * k >= i * n})

BinnedQuantile ==
  BinnedNumeric /\ bin_method = "quantile" /\ NonMissingVals # {}

\* Edges are the distinct inverted-CDF quantiles, in ascending order, and
\* row r with value x lies in the bin b with edge[b-1] < x <= edge[b].
QuantileEdgesAndBins ==
  LET e == InteriorEdges
      m == Len(e)
  IN /\ Range(e) = {InvertedCdf(i, K) : i \in 1..(K - 1)}
     /\ \A j \in 1..(m - 1) : e[j] < e[j + 1]
     /\ \A r \in DOMAIN feature :
          ~Missing(feature[r]) =>
            LET b == result.f_binned[r].bin
            IN /\ b \in 0..m
               /\ b = 0 \/ e[b] < feature[r]
               /\ b = m \/ feature[r] <= e[b + 1]
               /\ feature[r] = Min(NonMissingVals) => b = 0

\* C8 as stated: ... and the maximum falls into the last bin.
C8_QuantileMaxInLastBin ==
  BinnedQuantile =>
    /\ QuantileEdgesAndBins
    /\ \A r \in DOMAIN feature :
         feature[r] = Max(NonMissingVals)
           => result.f_binned[r].bin = Len(InteriorEdges)

\* C8, amended: with the quantile method and k effective bins the interior
\* edges are the distinct inverted-CDF quantiles at the levels i/k of the
\* non-missing values, each non-missing x gets the bin i with
\* edge[i-1] < x <= edge[i], the minimum falls into the first bin, and the
\* maximum falls into the last bin unless the largest interior edge equals
\* the maximum: then it falls into the bin before the last, which ends at
\* that edge, and the last bin is empty.
C8_QuantileEdgesAndBins ==
  BinnedQuantile =>
    /\ QuantileEdgesAndBins
    /\ \A r \in DOMAIN feature :
         feature[r] = Max(NonMissingVals) =>
           LET m == Len(InteriorEdges)
           IN result.f_binned[r].bin =
                IF m = 0 \/ InteriorEdges[m] < Max(NonMissingVals)
                THEN m ELSE m - 1

C8_Witness ==
  /\ BinnedQuantile
  /\ feature = <<1, 3, 2, 3>>
  /\ n_bins = 3
  /\ InteriorEdges = <<2, 3>>
  /\ result.f_binned[2].bin = 1
  /\ result.f_binned[3].bin = 0

BinnedUniform ==
  BinnedNumeric /\ bin_method = "uniform" /\ NonMissingVals # {}

\* C9: with the uniform method and k effective bins the interior edges
\* are min + (max - min)*i/k, i = 1..k-1 (here scaled by k), and every
\* non-missing row gets a bin id in 0..k-1, the one of the interval its
\* value lies in; 1..10 with n_bins = 5 gives 5 equal-width bins covering
\* [1, 10] with all 10 rows assigned.
C9_UniformEdgesAndBins ==
  BinnedUniform =>
    LET lo == Min(NonMissingVals)
        hi == Max(NonMissingVals)
    IN /\ result.edge_den = K
       /\ InteriorEdges = [i \in 1..(K - 1) |-> lo * K + (hi - lo) * i]
       /\ \A r \in DOMAIN feature :
            ~Missing(feature[r]) =>
              LET b == result.f_binned[r].bin
              IN /\ b \in 0..(K - 1)
                 /\ b = 0 \/ lo * K + (hi - lo) * b < feature[r] * K
                 /\ b = K - 1 \/ feature[r] * K <= lo * K + (hi - lo) * (b + 1)
       /\ (feature = <<1, 2, 3, 4, 5, 6, 7, 8, 9, 10>> /\ n_bins = 5) =>
            /\ result.edge_table
                 = <<<<5, 14>>, <<14, 23>>, <<23, 32>>, <<32, 41>>, <<41, 50>>>>
            /\ [r \in 1..10 |-> result.f_binned[r].bin]
                 = <<0, 0, 1, 1, 2, 2, 3, 3, 4, 4>>

C9_Witness ==
  /\ BinnedUniform
  /\ feature = <<1, 2, 3, 4, 5, 6, 7, 8, 9, 10>>
  /\ n_bins = 5
  /\ Len(result.edge_table) = 5
  /\ result.f_binned[10].bin = 4

\* C10: bin_feature raises ValueError for every bin_method other than
\* "quantile" and "uniform", whatever the feature, before anything else
\* is processed: no warning, no other error, no result.
C10_InvalidMethodRaisesFirst ==
  (pc = "bin_feature" /\ ~ValidMethod) => result = Raised("ValueError")

C10_Witness ==
  /\ pc = "bin_feature"
  /\ bin_method = "kmeans"
  /\ dtype = "categorical"
  /\ feature = << >>
  /\ result.error = "ValueError"

\* ---------------------------------------------------- isotonic solver
\* IsotonicRegression(functional, level).fit(y_pred, y_obs, sample_weight):
\* a fitted value is a rational <<numerator, denominator>>.
Less(a, b) == a[1] * b[2] < b[1] * a[2]

Same(a, b) == a[1] * b[2] = b[1] * a[2]

ErrWeights == "ValueError: negative weights"

\* The observations (x, y, w) of the call, in input order.
Observations(x, y, w) == [i \in DOMAIN x |-> [x |-> x[i], y |-> y[i], w |-> w[i]]]

\* An observation of weight zero is kept only if its x is shared by an
\* observation of positive weight.
kept(obs) ==
  SelectSeq(obs, LAMBDA o : \E j \in DOMAIN obs : obs[j].x = o.x /\ obs[j].w > 0)

RECURSIVE sort_by_x(_)
\* Step 1: ascending in x, stable on ties.
sort_by_x(obs) ==
  IF obs = << >> THEN << >>
  ELSE LET least == Min({obs[i].x : i \in DOMAIN obs})
           i0 == Min({i \in DOMAIN obs : obs[i].x = least})
           rest == [i \in 1..(Len(obs) - 1) |->
                      IF i < i0 THEN obs[i] ELSE obs[i + 1]]
       IN <<obs[i0]>> \o sort_by_x(rest)

WeightOver(obs, M) == SumOver([i \in DOMAIN obs |-> obs[i].w], M)

weighted_mean(obs, M) ==
  <<SumOver([i \in DOMAIN obs |-> obs[i].w * obs[i].y], M), WeightOver(obs, M)>>

\* The lower weighted quantile: the least y whose cumulated weight reaches
\* level times the weight of the block.
weighted_quantile(obs, M, lvl) ==
  <<Min({obs[j].y : j \in {k \in M :
          /\ obs[k].w > 0
          /\ LevelDen * WeightOver(obs, {i \in M : obs[i].y <= obs[k].y})
               >= lvl * WeightOver(obs, M)}}), 1>>

\* The weighted expectile t: the zero of
\* sum(w * |1{t >= y} - level| * (t - y)); the least resp. largest y of
\* positive weight at level 0 resp. 1.
weighted_expectile(obs, M, lvl) ==
  LET P == {i \in M : obs[i].w > 0}
      below(v) == {i \in P : obs[i].y <= v}
      above(v) == {i \in P : obs[i].y > v}
      cand(v) ==
        <<(LevelDen - lvl) * SumOver([i \in DOMAIN obs |-> obs[i].w * obs[i].y], below(v))
            + lvl * SumOver([i \in DOMAIN obs |-> obs[i].w * obs[i].y], above(v)),
          (LevelDen - lvl) * WeightOver(obs, below(v)) + lvl * WeightOver(obs, above(v))>>
      fits(v) ==
        /\ ~Less(cand(v), <<v, 1>>)
        /\ \A i \in above(v) : Less(cand(v), <<obs[i].y, 1>>)
  IN IF lvl = 0 THEN <<Min({obs[i].y : i \in P}), 1>>
     ELSE IF lvl = LevelDen THEN <<Max({obs[i].y : i \in P}), 1>>
     ELSE cand(CHOOSE v \in {obs[i].y : i \in P} : fits(v))

\* The fitted value of the block with members M: the value that zeroes
\* the weighted sum of identification values over the block.
block_value(obs, M, fnl, lvl) ==
  IF fnl = "mean" THEN weighted_mean(obs, M)
  ELSE IF fnl = "median" THEN weighted_quantile(obs, M, LevelDen \div 2)
  ELSE IF fnl = "quantile" THEN weighted_quantile(obs, M, lvl)
  ELSE weighted_expectile(obs, M, lvl)

Block(obs, M, k, fnl, lvl) ==
  [members |-> M, n_init |-> k, value |-> block_value(obs, M, fnl, lvl)]

\* Step 2: one block per distinct x of the sorted observations.
initial_blocks(obs, fnl, lvl) ==
  LET xs == SortedSeq({obs[i].x : i \in DOMAIN obs})
  IN [k \in DOMAIN xs |->
        Block(obs, {i \in DOMAIN obs : obs[i].x = xs[k]}, 1, fnl, lvl)]

\* Mutant: a block that was pooled once is not compared again.
needs_pooling_once(stack) ==
  /\ Len(stack) >= 2
  /\ stack[Len(stack)].n_init = 1
  /\ Less(stack[Len(stack)].value, stack[Len(stack) - 1].value)

\* Mutant: blocks of equal value are pooled as well.
needs_pooling_on_equal(stack) ==
  /\ Len(stack) >= 2
  /\ ~Less(stack[Len(stack) - 1].value, stack[Len(stack)].value)

\* Step 3: the last block's value is smaller than that of its predecessor.
needs_pooling(stack) ==
  /\ Len(stack) >= 2
  /\ Less(stack[Len(stack)].value, stack[Len(stack) - 1].value)

\* The last two blocks merged and the value solved anew on the union.
pool(obs, stack, fnl, lvl) ==
  LET a == stack[Len(stack) - 1]
      b == stack[Len(stack)]
  IN Append(SubSeq(stack, 1, Len(stack) - 2),
            Block(obs, a.members \cup b.members, a.n_init + b.n_init, fnl, lvl))

\* Mutant: neighbouring blocks of equal value stay apart.
coalesce_skipped(stack) == stack

RECURSIVE coalesce(_)
\* A block is a maximal run of one fitted value: neighbouring blocks of
\* equal value are one block.
coalesce(stack) ==
  IF Len(stack) <= 1 THEN stack
  ELSE LET init == coalesce(SubSeq(stack, 1, Len(stack) - 1))
           a == init[Len(init)]
           b == stack[Len(stack)]
       IN IF Same(a.value, b.value)
          THEN Append(SubSeq(init, 1, Len(init) - 1),
                      [members |-> a.members \cup b.members,
                       n_init |-> a.n_init + b.n_init, value |-> a.value])
          ELSE Append(init, b)

\* FittedModel: per block its threshold (the least x of the block) and its
\* value, and the fitted value of each sorted observation.
Fitted(obs, blocks) ==
  [status |-> "returned", error |-> "",
   blocks |-> blocks,
   thresholds |-> [b \in DOMAIN blocks |->
                     Min({obs[i].x : i \in blocks[b].members})],
   values |-> [b \in DOMAIN blocks |-> blocks[b].value],
   fitted |-> [i \in DOMAIN obs |->
                 blocks[CHOOSE b \in DOMAIN blocks : i \in blocks[b].members].value]]

IsoFrame == UNCHANGED <<feature, dtype, n_bins, bin_method, y_obs, y_pred,
                        functional, level, weights>>

\* fit: validation, sorting and the initial blocks.
IsoFitStart ==
  /\ pc = "ready"
  /\ IF \E i \in DOMAIN weights : weights[i] < 0
     THEN /\ pc' = "fit"
          /\ result' = Raised(ErrWeights)
          /\ iso' = iso
     ELSE LET obs == sort_by_x(kept(Observations(y_pred.data, y_obs.data, weights)))
          IN /\ pc' = "scan"
             /\ iso' = [obs |-> obs, todo |-> initial_blocks(obs, functional, level),
                        stack |-> << >>, n_pooled |-> 0]
             /\ result' = result
  /\ IsoFrame

\* The scan takes the next block.
IsoPush ==
  /\ pc = "scan"
  /\ iso.todo # << >>
  /\ iso' = [iso EXCEPT !.stack = Append(@, Head(iso.todo)), !.todo = Tail(@)]
  /\ pc' = "pool"
  /\ result' = result
  /\ IsoFrame

\* One pooling of the pooling loop.
IsoPool ==
  /\ pc = "pool"
  /\ needs_pooling(iso.stack)
  /\ iso' = [iso EXCEPT !.stack = pool(iso.obs, @, functional, level),
                         !.n_pooled = @ + 1]
  /\ pc' = "pool"
  /\ result' = result
  /\ IsoFrame

\* The pooling loop ends: the scan goes on.
IsoPoolDone ==
  /\ pc = "pool"
  /\ ~needs_pooling(iso.stack)
  /\ pc' = "scan"
  /\ UNCHANGED <<iso, result>>
  /\ IsoFrame

\* All blocks are scanned: the fitted model is returned.
IsoFinish ==
  /\ pc = "scan"
  /\ iso.todo = << >>
  /\ pc' = "fit"
  /\ result' = Fitted(iso.obs, coalesce(iso.stack))
  /\ iso' = iso
  /\ IsoFrame

IsoFunctionals ==
  { [functional |-> "mean", level |-> LevelDen \div 2],
    [functional |-> "median", level |-> LevelDen \div 2],
    [functional |-> "quantile", level |-> 0],
    [functional |-> "quantile", level |-> 3],
    [functional |-> "expectile", level |-> 3],
    [functional |-> "expectile", level |-> LevelDen] }

\* x in ascending and in descending order, all equal, tied in pairs, and
\* rotated.
XOrders(n) ==
  { [i \in 1..n |-> i], [i \in 1..n |-> n + 1 - i], [i \in 1..n |-> 1],
    [i \in 1..n |-> (i + 1) \div 2], [i \in 1..n |-> IF i = 1 THEN n ELSE i - 1] }

InitIso ==
  /\ pc = "ready"
  /\ \E n \in 0..MaxN :
       /\ y_pred \in {Array(<<n>>, x) : x \in XOrders(n)}
       /\ y_obs \in ArraysOf(<<n>>, 0..2)
       /\ weights \in [1..n -> 0..2] \cup {[i \in 1..n |-> 1 - i]}
  /\ \E f \in IsoFunctionals : functional = f.functional /\ level = f.level
  /\ feature = << >>
  /\ dtype = "none"
  /\ n_bins = 1
  /\ bin_method = "quantile"
  /\ result = NoResult
  /\ iso = NoIso

NextIso == IsoFitStart \/ IsoPush \/ IsoPool \/ IsoPoolDone \/ IsoFinish

SpecIso == InitIso /\ [][NextIso]_vars

\* ------------------------------------------------------ all components
InitAll == Init \/ InitIdent \/ InitBias

NextAll ==
  \/ CallBinFeature
  \/ CallComputeBias
  \/ CallValidate2Arrays
  \/ CallIdentificationFunction
  \/ CallComputePartialDependence

SpecAll == InitAll /\ [][NextAll]_vars

\* ------------------------------- claims on identification_function
IdentCalled == pc = "identification_function"

SameShape == y_obs.shape = y_pred.shape

Elements == DOMAIN y_obs.data

\* 1{pred >= y} of element i, as a numerator over LevelDen.
Indicator(i) == IF y_pred.data[i] >= y_obs.data[i] THEN LevelDen ELSE 0

Sign(x) == IF x > 0 THEN 1 ELSE IF x < 0 THEN 0 - 1 ELSE 0

LevelInRange == level >= 0 /\ level <= LevelDen

\* C11: for the quantile functional the value is 1{pred >= y} - level
\* elementwise, for median the same with level 0.5; y = 1, pred = 1,
\* quantile, level = 0.3 gives 0.7.
C11_QuantileFormula ==
  (/\ IdentCalled
   /\ SameShape
   /\ \/ functional = "quantile" /\ LevelInRange
      \/ functional = "median")
    => /\ result.status = "returned"
       /\ result.V.shape = y_obs.shape
       /\ DOMAIN result.V.data = Elements
       /\ \A i \in Elements :
            result.V.data[i] =
              Indicator(i) - (IF functional = "median" THEN LevelDen \div 2
                              ELSE level)
       /\ (/\ functional = "quantile" /\ level = 3
           /\ y_obs = Array(<< >>, <<1>>) /\ y_pred = Array(<< >>, <<1>>))
            => result.V.data[1] = 7

C11_Witness ==
  /\ IdentCalled
  /\ functional = "quantile"
  /\ level = 3
  /\ y_obs = Array(<< >>, <<1>>)
  /\ y_pred = Array(<< >>, <<1>>)
  /\ result.V = Array(<< >>, <<7>>)

\* C12: for the expectile functional with level in [0, 1] the value is
\* 2*|1{pred >= y} - level|*(pred - y) elementwise: (1 - level) or level
\* times 2*(pred - y); its sign is that of pred - y when 0 < level < 1,
\* and it is 0 at pred = y.
C12_ExpectileFormula ==
  (IdentCalled /\ SameShape /\ functional = "expectile" /\ LevelInRange)
    => /\ result.status = "returned"
       /\ \A i \in Elements :
            LET d == y_pred.data[i] - y_obs.data[i]
                v == result.V.data[i]
            IN /\ v = IF d >= 0 THEN 2 * (LevelDen - level) * d
                               ELSE 2 * level * d
               /\ (level > 0 /\ level < LevelDen) => Sign(v) = Sign(d)
               /\ d = 0 => v = 0

C12_Witness ==
  /\ IdentCalled
  /\ functional = "expectile"
  /\ level = 3
  /\ y_obs = Array(<<2>>, <<2, 1>>)
  /\ y_pred = Array(<<2>>, <<1, 2>>)
  /\ result.V = Array(<<2>>, <<0 - 6, 14>>)

\* C13: with level 0.5 the expectile functional gives what the mean
\* functional gives, pred - y, and the quantile functional gives what the
\* median functional gives, for all y and pred.
C13_HalfLevelEquivalences ==
  (IdentCalled /\ level = LevelDen \div 2)
    => /\ functional = "expectile" =>
            /\ result = identification_function(y_obs, y_pred, "mean", level)
            /\ SameShape => \A i \in Elements :
                 result.V.data[i]
                   = (y_pred.data[i] - y_obs.data[i]) * LevelDen
       /\ functional = "quantile" =>
            result = identification_function(y_obs, y_pred, "median", level)

C13_Witness ==
  /\ IdentCalled
  /\ level = LevelDen \div 2
  /\ functional = "expectile"
  /\ y_obs = Array(<<2>>, <<2, 1>>)
  /\ y_pred = Array(<<2>>, <<1, 2>>)
  /\ result.V = Array(<<2>>, <<0 - 10, 10>>)

\* C14: a level outside [0, 1] raises for quantile and expectile; for
\* mean and median every level is accepted and the result is the same
\* for every level.
C14_LevelValidatedWhenUsed ==
  (IdentCalled /\ SameShape)
    => /\ (functional \in {"quantile", "expectile"} /\ ~LevelInRange)
            => result = Raised(ErrLevel)
       /\ functional \in {"mean", "median"} =>
            /\ result.status = "returned"
            /\ \A l \in Levels :
                 result = identification_function(y_obs, y_pred, functional, l)

C14_Witness ==
  /\ IdentCalled
  /\ SameShape
  /\ functional = "median"
  /\ level = 15
  /\ result.status = "returned"

\* C15: a functional outside mean, median, expectile, quantile raises the
\* invalid-argument error, for every level and every pair of equally
\* shaped inputs, and no value is returned.
C15_UnknownFunctionalRaises ==
  (/\ IdentCalled
   /\ SameShape
   /\ functional \notin {"mean", "median", "expectile", "quantile"})
    => result = Raised(ErrFunctional)

C15_Witness ==
  /\ IdentCalled
  /\ SameShape
  /\ functional = "mode"
  /\ level = 15
  /\ result.status = "raised"

\* C16: validate_2_arrays raises exactly if the inputs differ in the
\* number of dimensions or in the length of an axis, and otherwise
\* returns both arrays unchanged; identification_function reports a
\* shape mismatch also when functional or level are invalid as well.
C16_ShapeValidation ==
  /\ pc = "validate_2_arrays" =>
       /\ result.status = "raised" <=>
            \/ Len(y_obs.shape) # Len(y_pred.shape)
            \/ \E i \in DOMAIN y_obs.shape \cap DOMAIN y_pred.shape :
                 y_obs.shape[i] # y_pred.shape[i]
       /\ result.status # "raised" =>
            (result.status = "returned" /\ result.a = y_obs /\ result.b = y_pred)
  /\ (IdentCalled /\ ~SameShape) =>
       /\ result.status = "raised"
       /\ result.error \in {ErrDimension, ErrShape}

C16_Witness ==
  /\ IdentCalled
  /\ y_obs.shape = <<1, 2>>
  /\ y_pred.shape = <<1, 1>>
  /\ functional = "mode"
  /\ level = 15
  /\ result = Raised(ErrShape)

\* ----------------------------------------------- claims on compute_bias
BiasReturned == pc = "compute_bias" /\ result.status = "returned"

\* The identification values of the rows of the call.
BiasColumn == identification_function(y_obs, y_pred, functional, level).V.data

\* C17 as stated: the groups are ordered, numeric bins by ascending
\* representative (mean) feature value, categories by descending
\* frequency, and the group of missing values comes last.
C17_GroupsOrdered ==
  BiasReturned =>
    \A g, h \in DOMAIN result.df :
      g < h =>
        LET a == result.df[g]
            b == result.df[h]
        IN IF dtype \in NumericDtypes
           THEN (a.feature[1] # NAN /\ b.feature[1] # NAN)
                  => a.feature[1] * b.feature[2] <= b.feature[1] * a.feature[2]
           ELSE /\ a.feature # NULL
                /\ b.feature # NULL => a.bias_count >= b.bias_count

C19_IdenticalValuesUndefinedPValue ==
  (BiasReturned /\ \A i, j \in DOMAIN BiasColumn : BiasColumn[i] = BiasColumn[j])
    => \A g \in DOMAIN result.df :
         result.df[g].bias_count >= 2 =>
           /\ result.df[g].bias_stddev = [is_null |-> FALSE, variance |->
                  <<0, result.df[g].bias_count * (result.df[g].bias_count - 1)>>]
           /\ result.df[g].p_value.kind = "nan"

\* ------------------------------------------------- claims on all calls
\* C20: no call changes its inputs: the feature column and the arrays
\* y_obs and y_pred (the columns of X for the partial dependence) hold
\* after the call, returned or raised, what they held before it.
C20_InputsNotMutated ==
  [][/\ feature' = feature
     /\ y_obs' = y_obs
     /\ y_pred' = y_pred]_vars

\* bin_feature has returned for a float column with a NaN, the case in
\* which it replaces NaN by null in its own copy.
C20_Witness ==
  /\ pc = "bin_feature"
  /\ result.status = "returned"
  /\ dtype = "float"
  /\ NAN \in Range(feature)
  /\ DataVals \cap Range(feature) # {}

\* ------------------------------------------ claims on the isotonic solver
Fit == pc = "fit" /\ result.status = "returned"

Contiguous(M) == M # {} /\ \A i \in Min(M)..Max(M) : i \in M

\* The blocks are contiguous runs that follow one another and cover 1..n.
PartitionInRuns(blocks, n) ==
  /\ \A b \in DOMAIN blocks : Contiguous(blocks[b].members)
  /\ \A b \in 1..(Len(blocks) - 1) :
       Max(blocks[b].members) + 1 = Min(blocks[b + 1].members)
  /\ IF blocks = << >> THEN n = 0
     ELSE Min(blocks[1].members) = 1 /\ Max(blocks[Len(blocks)].members) = n

\* Along ascending thresholds the values do not decrease.
Monotone(obs, blocks) ==
  \A b \in 1..(Len(blocks) - 1) :
    /\ Min({obs[i].x : i \in blocks[b].members})
         < Min({obs[i].x : i \in blocks[b + 1].members})
    /\ ~Less(blocks[b + 1].value, blocks[b].value)

AllObservations == Observations(y_pred.data, y_obs.data, weights)

\* Observations of weight zero whose x no observation of positive weight
\* shares.
Unweighted ==
  {i \in DOMAIN weights :
     \A j \in DOMAIN weights : y_pred.data[j] = y_pred.data[i] => weights[j] = 0}

SortedByX(obs) == \A i \in 1..(Len(obs) - 1) : obs[i].x <= obs[i + 1].x

\* C21 as stated: for non-negative weights, not all zero, the final blocks
\* have non-decreasing values along ascending thresholds and partition
\* the sorted observations, all of them, into contiguous runs.
C21_BlocksPartitionAllObservations ==
  (Fit /\ \E i \in DOMAIN weights : weights[i] > 0)
    => /\ Monotone(iso.obs, result.blocks)
       /\ PartitionInRuns(result.blocks, Len(y_obs.data))

\* C21, amended: whenever the pooling loop has finished, and in the fitted
\* model, the values of the blocks do not decrease along ascending
\* thresholds and the blocks partition, in contiguous runs, the sorted
\* observations other than those of weight zero whose x no observation
\* of positive weight shares.
C21_MonotoneBlocksPartitionKept ==
  /\ pc \in {"scan", "fit"} /\ result.status # "raised" =>
       /\ SortedByX(iso.obs)
       /\ Len(iso.obs) = Len(y_obs.data) - Cardinality(Unweighted)
       /\ \A o \in Range(iso.obs) :
            Count(iso.obs, o) = Count(AllObservations, o)
  /\ pc = "scan" =>
       /\ Monotone(iso.obs, iso.stack)
       /\ PartitionInRuns(iso.stack,
             Len(iso.obs) - Cardinality(UNION {iso.todo[k].members : k \in DOMAIN iso.todo}))
  /\ Fit =>
       /\ Monotone(iso.obs, result.blocks)
       /\ PartitionInRuns(result.blocks, Len(iso.obs))
       /\ \A b \in DOMAIN result.blocks :
            /\ result.values[b] = result.blocks[b].value
            /\ \A i \in result.blocks[b].members :
                 result.fitted[i] = result.blocks[b].value

\* Reverse-sorted y pooled twice into one block.
C21_Witness ==
  /\ Fit
  /\ y_pred.data = <<1, 2, 3>>
  /\ y_obs.data = <<2, 1, 0>>
  /\ weights = <<1, 2, 1>>
  /\ functional = "mean"
  /\ iso.n_pooled = 2
  /\ Len(result.blocks) = 1
  /\ result.blocks[1].members = {1, 2, 3}
  /\ result.values = <<(<<4, 4>>)>>

\* y does not decrease in the order of ascending x.
YMonotone ==
  LET obs == sort_by_x(AllObservations)
  IN \A i \in 1..(Len(obs) - 1) : obs[i].y <= obs[i + 1].y

FittedEqualsY ==
  \A i \in DOMAIN iso.obs : Same(result.fitted[i], <<iso.obs[i].y, 1>>)

C23_ConstantYOneBlock ==
  (/\ Fit
   /\ \E i \in DOMAIN weights : weights[i] > 0
   /\ \A i, j \in DOMAIN y_obs.data : y_obs.data[i] = y_obs.data[j])
    => /\ Len(result.blocks) = 1
       /\ Same(result.values[1], <<y_obs.data[1], 1>>)
       /\ result.blocks[1].members = DOMAIN iso.obs

C23_Witness ==
  /\ Fit
  /\ functional = "expectile"
  /\ level = 3
  /\ y_pred.data = <<1, 2, 3>>
  /\ y_obs.data = <<2, 2, 2>>
  /\ weights = <<1, 2, 1>>
  /\ Len(result.blocks) = 1
  /\ iso.n_pooled = 0

\* ------------------------------------------- claims on the bin edges
\* C24 as stated: for a numeric feature without missing values the
\* quantile edges of compute_bias (lower interpolation) are the quantile
\* edges of bin_feature (inverted CDF) for the same n_bins, and every row
\* gets the same bin from both.
C24_SameQuantileEdges ==
  (/\ pc = "compute_bias"
   /\ result.status = "returned"
   /\ dtype \in NumericDtypes
   /\ feature # << >>
   /\ ~AnyMissing)
    => LET binner == CHOOSE o \in bin_feature(feature, dtype, n_bins, "quantile") :
                       o.status = "returned"
           edges == [j \in 1..(Len(binner.edge_table) - 1) |->
                       binner.edge_table[j][2]]
           bins == [r \in DOMAIN feature |-> binner.f_binned[r].bin]
           q == lower_edges(feature, n_bins)
       IN /\ q = edges
          /\ bins = [r \in DOMAIN feature |-> digitize(feature[r], q, 1)]
          /\ [g \in DOMAIN result.df |-> result.df[g].bias_count]
               = [g \in DOMAIN group_by(bins) |-> group_by(bins)[g].bias_count]

\* C25: for a numeric feature and either method the bin id of a
\* non-missing row is an index of the edge table, the reported pair
\* [low, high] is the table's entry at the bin id and contains the row's
\* value; low is the feature minimum for bin 0 and high the feature
\* maximum for the last bin.
C25_BinEdgesContainValue ==
  BinnedNumeric =>
    \A r \in DOMAIN feature :
      ~Missing(feature[r]) =>
        LET row == result.f_binned[r]
            x == feature[r] * result.edge_den
        IN /\ row.bin \in 0..(Len(result.edge_table) - 1)
           /\ row.bin_edges = result.edge_table[row.bin + 1]
           /\ row.bin_edges[1] <= x
           /\ x <= row.bin_edges[2]
           /\ row.bin = 0 =>
                row.bin_edges[1] = Min(NonMissingVals) * result.edge_den
           /\ row.bin = Len(result.edge_table) - 1 =>
                row.bin_edges[2] = Max(NonMissingVals) * result.edge_den

\* A uniform binning into three bins with a value in the middle bin.
C25_Witness ==
  /\ BinnedNumeric
  /\ bin_method = "uniform"
  /\ feature = <<1, 3, 2>>
  /\ n_bins = 3
  /\ result.edge_table = <<(<<3, 5>>), (<<5, 7>>), (<<7, 9>>)>>
  /\ result.f_binned[3] = [bin |-> 1, bin_edges |-> <<5, 7>>]
====
